---- MODULE Spec2Model ----
(***************************************************************************)
(* A model of the task service of src/main.rs: a Rocket application whose  *)
(* five handlers (list_tasks, get_task, create_task, update_task,          *)
(* delete_task) each lock the shared Mutex<Pool>, check out one MySQL      *)
(* connection, run one statement and build the response.  The handlers     *)
(* hold no .await, so each runs on a worker thread from its first line to  *)
(* its return; the workers run in parallel.                                *)
(*                                                                         *)
(* An Option<T> of the source is a sequence of length at most one.         *)
(***************************************************************************)
EXTENDS Integers, Sequences, FiniteSets, TLC

\* ---------------------------------------------------------------- bounds
NumWorkers == 2
NumConns == 2
MaxId == 2
MaxRequests == 3

Workers == 1..NumWorkers
Conns == 1..NumConns
Ids == 1..MaxId
Descriptions == {"a", "b"}

None == <<>>
Some(x) == <<x>>
IsSome(o) == Len(o) = 1
Unwrap(o) == o[1]

\* ------------------------------------------------------------------ data
\* struct Task: the value built for a response (its id is always Some).
Task(i, d, c) == [id |-> Some(i), description |-> d, is_completed |-> c]

\* A request body: a Task as the client sends it, with or without an id.
\* The handlers read its description and is_completed only.
Bodies ==
    [id : {None} \cup {Some(i) : i \in Ids},
     description : Descriptions, is_completed : BOOLEAN]

\* conn.last_insert_id() as u32: the low 32 bits, taken in two 16-bit halves.
AsU32(x) == (x % 65536) + 65536 * ((x \div 65536) % 65536)

Requests ==
    {[kind |-> "list", id |-> None, body |-> None]}
    \cup {[kind |-> k, id |-> Some(i), body |-> None] :
            k \in {"get", "delete"}, i \in Ids}
    \cup {[kind |-> "create", id |-> None, body |-> Some(b)] : b \in Bodies}
    \cup {[kind |-> "update", id |-> Some(i), body |-> Some(b)] :
            i \in Ids, b \in Bodies}

NoRequest == [kind |-> "none", id |-> None, body |-> None]

\* What a handler hands to Rocket: the outcome (200 "ok", 201 "created",
\* 204 "nocontent", 404 "notfound", 500 "error" for a panic), the body, and
\* the fault the operation met ("none", "poison", "pool", "stmt").
Result(o, t, l, f) == [outcome |-> o, task |-> t, list |-> l, fault |-> f]
NoResult == Result("none", None, <<>>, "none")
Panic(f) == Result("error", None, <<>>, f)

\* The fields of a body that reach a statement.
Fields(o) ==
    IF o = None
    THEN None
    ELSE Some([description |-> Unwrap(o).description,
               is_completed |-> Unwrap(o).is_completed])

\* A completed operation: its request (the path id and the fields the
\* handler read) and its result.
Event(r, s) == [kind |-> r.kind, id |-> r.id, body |-> Fields(r.body),
                outcome |-> s.outcome, task |-> s.task, list |-> s.list,
                fault |-> s.fault]
NoEvent == Event(NoRequest, NoResult)

VARIABLES
    phase,          \* "boot", "schema", "serving", "aborted": rocket()
    schema,         \* the tasks table exists
    table,          \* the rows: id -> [description, is_completed]
    nextId,         \* the table's AUTO_INCREMENT counter
    lastInsertId,   \* per connection: LAST_INSERT_ID()
    mutex,          \* Mutex<Pool>: None, or Some(worker holding the guard)
    poisoned,       \* the Mutex was held by a panicking thread
    idle,           \* the pool's idle connections, oldest first
    conn,           \* per worker: the PooledConn it holds
    pc,             \* per worker: where its handler is
    req,            \* per worker: the request it handles
    inserted,       \* per worker: the id of the row its INSERT made
    res,            \* per worker: the response it has built
    last,           \* the operation completed most recently
    issued,         \* the ids returned by successful Creates, in order
    nreq            \* requests received and restarts so far

vars == <<phase, schema, table, nextId, lastInsertId, mutex, poisoned, idle,
          conn, pc, req, inserted, res, last, issued, nreq>>

dbVars == <<table, nextId, lastInsertId>>
bootVars == <<phase, schema>>

Init ==
    /\ phase = "boot"
    /\ schema = FALSE
    /\ table = <<>>
    /\ nextId = 1
    /\ lastInsertId = [c \in Conns |-> 0]
    /\ mutex = None
    /\ poisoned = FALSE
    /\ idle = [c \in Conns |-> c]
    /\ conn = [p \in Workers |-> None]
    /\ pc = [p \in Workers |-> "idle"]
    /\ req = [p \in Workers |-> NoRequest]
    /\ inserted = [p \in Workers |-> None]
    /\ res = [p \in Workers |-> NoResult]
    /\ last = NoEvent
    /\ issued = <<>>
    /\ nreq = 0


\* ----------------------------------------------------------- statements
Row(b) == [description |-> b.description, is_completed |-> b.is_completed]

\* SELECT id, description, is_completed FROM tasks WHERE id = :id, mapped
\* to a Task.
SelectById(t, i) ==
    IF i \in DOMAIN t
    THEN Some(Task(i, t[i].description, t[i].is_completed))
    ELSE None

\* The orders in which SELECT without ORDER BY may hand back the rows.
RowOrders(t) ==
    {s \in [1..Cardinality(DOMAIN t) -> DOMAIN t] :
        \A j, k \in DOMAIN s : j # k => s[j] # s[k]}

\* Mutant of SelectAll: the last row fetched is lost.
SelectAllButLast(t, order) ==
    [j \in 1..(Len(order) - 1) |->
        Task(order[j], t[order[j]].description, t[order[j]].is_completed)]

\* SELECT id, description, is_completed FROM tasks, mapped to Tasks.
SelectAll(t, order) ==
    [j \in DOMAIN order |->
        Task(order[j], t[order[j]].description, t[order[j]].is_completed)]

\* Mutant of AutoIncrement: one more than the largest id in the table, which
\* hands the id of a deleted last row out again.
AutoIncrementMaxPlusOne ==
    IF DOMAIN table = {}
    THEN 1
    ELSE 1 + CHOOSE m \in DOMAIN table : \A k \in DOMAIN table : k <= m

\* Mutant of AutoIncrement: the lowest id no row holds.
AutoIncrementLowestFree ==
    CHOOSE m \in 1..(MaxId + 1) :
        /\ m \notin DOMAIN table
        /\ \A k \in 1..(m - 1) : k \in DOMAIN table

\* The id AUTO_INCREMENT gives the next row.
AutoIncrement == nextId

\* Mutant of InsertRow: is_completed is left to the column's default.
InsertRowDefaultCompleted(t, i, b) ==
    [k \in DOMAIN t \cup {i} |->
        IF k = i
        THEN [description |-> b.description, is_completed |-> FALSE]
        ELSE t[k]]

\* Mutant of InsertRow: an id given in the body is inserted with the row.
InsertRowBodyId(t, i, b) ==
    LET k == IF IsSome(b.id) THEN Unwrap(b.id) ELSE i
    IN  [j \in DOMAIN t \cup {k} |-> IF j = k THEN Row(b) ELSE t[j]]

\* INSERT INTO tasks (description, is_completed) VALUES (...)
InsertRow(t, i, b) ==
    [k \in DOMAIN t \cup {i} |-> IF k = i THEN Row(b) ELSE t[k]]

\* Mutant of UpdateRow: the statement is bound to the body's id when the
\* body has one.
UpdateRowBodyId(t, i, b) ==
    LET k == IF IsSome(b.id) THEN Unwrap(b.id) ELSE i
    IN  [j \in DOMAIN t |-> IF j = k THEN Row(b) ELSE t[j]]

\* UPDATE tasks SET description = ..., is_completed = ... WHERE id = :id
UpdateRow(t, i, b) ==
    [k \in DOMAIN t |-> IF k = i THEN Row(b) ELSE t[k]]

\* Mutant of DeleteRow: the WHERE clause is missing.
DeleteRowAll(t, i) == [k \in {} |-> t[k]]

\* DELETE FROM tasks WHERE id = :id
DeleteRow(t, i) == [k \in DOMAIN t \ {i} |-> t[k]]

\* ---------------------------------------------------------------- boot
\* Mutant of InitDb: a failure of the statement is not unwrapped, and
\* rocket() goes on.
InitDbIgnoringFailure ==
    /\ phase = "boot"
    /\ phase' = "schema"
    /\ \/ schema' = TRUE
       \/ UNCHANGED schema
    /\ UNCHANGED <<dbVars, mutex, poisoned, idle, conn, pc, req, inserted,
                   res, last, issued, nreq>>

\* Mutant of InitDb: the table is dropped and created anew at every start.
InitDbRecreate ==
    /\ phase = "boot"
    /\ \/ /\ phase' = "schema"
          /\ schema' = TRUE
          /\ table' = <<>>
          /\ nextId' = 1
       \/ /\ phase' = "aborted"
          /\ UNCHANGED <<schema, table, nextId>>
    /\ UNCHANGED <<lastInsertId, mutex, poisoned, idle, conn, pc, req,
                   inserted, res, last, issued, nreq>>

\* init_db(): a pool of its own, one connection, CREATE TABLE IF NOT EXISTS.
\* Each of the three may fail, and each failure is a panic in rocket().
InitDb ==
    /\ phase = "boot"
    /\ \/ /\ phase' = "schema"
          /\ schema' = TRUE
       \/ /\ phase' = "aborted"
          /\ UNCHANGED schema
    /\ UNCHANGED <<dbVars, mutex, poisoned, idle, conn, pc, req, inserted, res, last,
                   issued, nreq>>

\* rocket() after init_db(): the managed pool is built and the routes are
\* mounted; init_pool() panics when the database cannot be reached.
Launch ==
    /\ phase = "schema"
    /\ phase' \in {"serving", "aborted"}
    /\ UNCHANGED <<schema, dbVars, mutex, poisoned, idle, conn, pc, req, inserted, res,
                   last, issued, nreq>>

\* The process ends between two operations (or after an aborted start) and
\* is started again: rocket() runs from its first line with a new Mutex and
\* new pools, whose connections have inserted nothing; the database keeps
\* the table.  A restart counts against the length of the run.
Restart ==
    /\ phase \in {"serving", "aborted"}
    /\ \A p \in Workers : pc[p] = "idle"
    /\ nreq < MaxRequests
    /\ nreq' = nreq + 1
    /\ phase' = "boot"
    /\ mutex' = None
    /\ poisoned' = FALSE
    /\ idle' = [c \in Conns |-> c]
    /\ lastInsertId' = [c \in Conns |-> 0]
    /\ UNCHANGED <<schema, table, nextId, conn, pc, req, inserted, res, last,
                   issued>>

\* ------------------------------------------------------------- handlers
\* Creates that hold a connection and have not inserted yet.
CreatesPending ==
    Cardinality({q \in Workers : req[q].kind = "create" /\ pc[q] = "conn"})

\* A request arrives and Rocket hands it to a worker.  What it asks for
\* plays no part before the handler has the lock, and is drawn there.
Receive(p) ==
    /\ phase = "serving"
    /\ pc[p] = "idle"
    /\ nreq < MaxRequests
    /\ pc' = [pc EXCEPT ![p] = "start"]
    /\ nreq' = nreq + 1
    /\ UNCHANGED <<bootVars, dbVars, mutex, poisoned, idle, conn, req, inserted, res,
                   last, issued>>

\* The handler has returned or panicked with nothing left to drop: Rocket
\* answers request r with s.
Complete(p, r, s) ==
    /\ last' = Event(r, s)
    /\ pc' = [pc EXCEPT ![p] = "idle"]
    /\ req' = [req EXCEPT ![p] = NoRequest]
    /\ inserted' = [inserted EXCEPT ![p] = None]
    /\ res' = [res EXCEPT ![p] = NoResult]

\* let pool = db.pool.lock().unwrap();
\* A poisoned Mutex hands the guard over inside an Err: unwrap() panics and
\* the guard is dropped with the error.
LockPool(p) ==
    /\ pc[p] = "start"
    /\ mutex = None
    /\ \E r \in Requests :
        /\ r.kind = "create" => nextId + CreatesPending <= MaxId
        /\ IF poisoned
           THEN /\ Complete(p, r, Panic("poison"))
                /\ UNCHANGED mutex
           ELSE /\ mutex' = Some(p)
                /\ pc' = [pc EXCEPT ![p] = "locked"]
                /\ req' = [req EXCEPT ![p] = r]
                /\ UNCHANGED <<inserted, res, last>>
    /\ UNCHANGED <<bootVars, dbVars, poisoned, idle, conn, issued, nreq>>

\* let mut conn = pool.get_conn().unwrap();
\* The pool hands out its oldest idle connection; when it cannot give one
\* (the database is unreachable), unwrap() panics with the guard held.
GetConn(p) ==
    /\ pc[p] = "locked"
    /\ \/ /\ idle # <<>>
          /\ conn' = [conn EXCEPT ![p] = Some(Head(idle))]
          /\ idle' = Tail(idle)
          /\ pc' = [pc EXCEPT ![p] = "conn"]
          /\ UNCHANGED res
       \/ /\ res' = [res EXCEPT ![p] = Panic("pool")]
          /\ pc' = [pc EXCEPT ![p] = "dropped"]
          /\ UNCHANGED <<conn, idle>>
    /\ UNCHANGED <<bootVars, dbVars, mutex, poisoned, req, inserted, last, issued, nreq>>

\* Mutant of Acquire: the handlers share one connection kept in the managed
\* state and use it without taking the lock.
AcquireShared(p) ==
    /\ pc[p] = "start"
    /\ \E r \in Requests :
        /\ r.kind = "create" => nextId + CreatesPending <= MaxId
        /\ req' = [req EXCEPT ![p] = r]
    /\ conn' = [conn EXCEPT ![p] = Some(Head(idle))]
    /\ UNCHANGED inserted
    /\ pc' = [pc EXCEPT ![p] = "conn"]
    /\ UNCHANGED <<bootVars, dbVars, mutex, poisoned, idle, res, last, issued,
                   nreq>>

\* The first two lines of every handler.
Acquire(p) == LockPool(p) \/ GetConn(p)

\* A statement ends and the handler has its return value (or is panicking).
Executed(p, r) ==
    /\ res' = [res EXCEPT ![p] = r]
    /\ pc' = [pc EXCEPT ![p] = "executed"]

\* conn.query_map(...).unwrap() fails: the handler panics.
StatementPanics(p) ==
    /\ Executed(p, Panic("stmt"))
    /\ UNCHANGED dbVars

\* list_tasks: Json(tasks)
ListTasks(p) ==
    /\ pc[p] = "conn"
    /\ req[p].kind = "list"
    /\ \/ \E order \in RowOrders(table) :
            /\ Executed(p, Result("ok", None, SelectAll(table, order), "none"))
            /\ UNCHANGED dbVars
       \/ StatementPanics(p)
    /\ UNCHANGED <<bootVars, mutex, poisoned, idle, conn, req, inserted, last, issued,
                   nreq>>

\* Mutant of GetResponse: the Option is unwrapped, so no row is a panic.
GetResponseUnwrap(found) ==
    IF IsSome(found)
    THEN Result("ok", found, <<>>, "none")
    ELSE Result("error", None, <<>>, "none")

\* result.map(Json): Some is 200 with the Task, None is 404.
GetResponse(found) ==
    IF IsSome(found)
    THEN Result("ok", found, <<>>, "none")
    ELSE Result("notfound", None, <<>>, "none")

\* get_task
GetTask(p) ==
    /\ pc[p] = "conn"
    /\ req[p].kind = "get"
    /\ \/ /\ Executed(p, GetResponse(SelectById(table, Unwrap(req[p].id))))
          /\ UNCHANGED dbVars
       \/ StatementPanics(p)
    /\ UNCHANGED <<bootVars, mutex, poisoned, idle, conn, req, inserted, last, issued,
                   nreq>>

\* create_task, conn.exec_drop(INSERT ...).unwrap(): the store assigns the
\* id, and the connection remembers it.
CreateInsert(p) ==
    /\ pc[p] = "conn"
    /\ req[p].kind = "create"
    /\ \/ /\ table' = InsertRow(table, AutoIncrement, Unwrap(req[p].body))
          /\ nextId' = nextId + 1
          /\ lastInsertId' =
                [lastInsertId EXCEPT ![Unwrap(conn[p])] = AutoIncrement]
          /\ inserted' = [inserted EXCEPT ![p] = Some(AutoIncrement)]
          /\ pc' = [pc EXCEPT ![p] = "inserted"]
          /\ UNCHANGED res
       \/ /\ StatementPanics(p)
          /\ UNCHANGED inserted
    /\ UNCHANGED <<bootVars, mutex, poisoned, idle, conn, req, last, issued,
                   nreq>>

\* status::Created::new(...).body(Json(new_task)): 201 with the Task built
\* from the request and the id read back.
CreateResponse(last_id, body) ==
    Result("created", Some(Task(last_id, body.description, body.is_completed)),
           <<>>, "none")

\* Mutant of CreateLastId: the id is read on another connection of the pool,
\* not on the one that inserted.
CreateLastIdOtherConn(p) ==
    /\ pc[p] = "inserted"
    /\ LET last_id == AsU32(lastInsertId[Head(idle)])
       IN  /\ Executed(p, CreateResponse(last_id, Unwrap(req[p].body)))
           /\ issued' = Append(issued, last_id)
    /\ UNCHANGED <<bootVars, dbVars, mutex, poisoned, idle, conn, req,
                   inserted, last, nreq>>

\* create_task, let last_id = conn.last_insert_id() as u32, and the response.
CreateLastId(p) ==
    /\ pc[p] = "inserted"
    /\ LET last_id == AsU32(lastInsertId[Unwrap(conn[p])])
       IN  /\ Executed(p, CreateResponse(last_id, Unwrap(req[p].body)))
           /\ issued' = Append(issued, last_id)
    /\ UNCHANGED <<bootVars, dbVars, mutex, poisoned, idle, conn, req, inserted, last,
                   nreq>>

\* match result { Ok(_) => Some(Json(Task {..})), Err(_) => None }
UpdateResponse(ok, task_id, body) ==
    IF ok
    THEN Result("ok", Some(Task(task_id, body.description, body.is_completed)),
                <<>>, "none")
    ELSE Result("notfound", None, <<>>, "stmt")

\* update_task
UpdateTask(p) ==
    /\ pc[p] = "conn"
    /\ req[p].kind = "update"
    /\ LET task_id == Unwrap(req[p].id)
           body == Unwrap(req[p].body)
       IN  \/ /\ table' = UpdateRow(table, task_id, body)
              /\ Executed(p, UpdateResponse(TRUE, task_id, body))
              /\ UNCHANGED <<nextId, lastInsertId>>
           \/ /\ Executed(p, UpdateResponse(FALSE, task_id, body))
              /\ UNCHANGED dbVars
    /\ UNCHANGED <<bootVars, mutex, poisoned, idle, conn, req, inserted, last, issued,
                   nreq>>

\* Mutant of DeleteResponse: deleting nothing is answered "not found".
DeleteResponseMissing(existed) ==
    IF existed
    THEN Result("nocontent", None, <<>>, "none")
    ELSE Result("notfound", None, <<>>, "none")

\* status::NoContent, whatever the statement deleted.
DeleteResponse(existed) == Result("nocontent", None, <<>>, "none")

\* delete_task
DeleteTask(p) ==
    /\ pc[p] = "conn"
    /\ req[p].kind = "delete"
    /\ LET task_id == Unwrap(req[p].id)
       IN  \/ /\ table' = DeleteRow(table, task_id)
              /\ Executed(p, DeleteResponse(task_id \in DOMAIN table))
              /\ UNCHANGED <<nextId, lastInsertId>>
           \/ StatementPanics(p)
    /\ UNCHANGED <<bootVars, mutex, poisoned, idle, conn, req, inserted, last, issued,
                   nreq>>

\* Mutant of DropConn: the connection is given back on return only, not on
\* unwinding.
DropConnOnReturnOnly(p) ==
    /\ pc[p] = "executed"
    /\ IF res[p].outcome = "error"
       THEN UNCHANGED <<idle, conn>>
       ELSE /\ idle' = Append(idle, Unwrap(conn[p]))
            /\ conn' = [conn EXCEPT ![p] = None]
    /\ pc' = [pc EXCEPT ![p] = "dropped"]
    /\ UNCHANGED <<bootVars, dbVars, mutex, poisoned, req, inserted, res, last, issued,
                   nreq>>

\* The handler's locals are dropped in reverse order, on return and on
\* unwinding alike.  First conn: the PooledConn goes back to the pool.
DropConn(p) ==
    /\ pc[p] = "executed"
    /\ idle' = Append(idle, Unwrap(conn[p]))
    /\ conn' = [conn EXCEPT ![p] = None]
    /\ pc' = [pc EXCEPT ![p] = "dropped"]
    /\ UNCHANGED <<bootVars, dbVars, mutex, poisoned, req, inserted, res, last, issued,
                   nreq>>

\* Mutant of DropGuard: the guard is released on return only; a panicking
\* handler keeps the lock.
DropGuardOnReturnOnly(p) ==
    /\ pc[p] = "dropped"
    /\ IF res[p].outcome = "error"
       THEN UNCHANGED <<mutex, poisoned>>
       ELSE mutex' = None /\ UNCHANGED poisoned
    /\ Complete(p, req[p], res[p])
    /\ UNCHANGED <<bootVars, dbVars, idle, conn, issued, nreq>>

\* Then pool: the MutexGuard unlocks, and poisons the Mutex when the thread
\* is panicking.  Rocket answers a panic with 500.
DropGuard(p) ==
    /\ pc[p] = "dropped"
    /\ mutex' = None
    /\ poisoned' = (poisoned \/ res[p].outcome = "error")
    /\ Complete(p, req[p], res[p])
    /\ UNCHANGED <<bootVars, dbVars, idle, conn, issued, nreq>>

Next ==
    \/ InitDb
    \/ Launch
    \/ Restart
    \/ \E p \in Workers :
        \/ Receive(p)
        \/ Acquire(p)
        \/ ListTasks(p)
        \/ GetTask(p)
        \/ CreateInsert(p)
        \/ CreateLastId(p)
        \/ UpdateTask(p)
        \/ DeleteTask(p)
        \/ DropConn(p)
        \/ DropGuard(p)

Spec == Init /\ [][Next]_vars

\* The steps of worker p's handler, from lock() to its return.
Handler(p) ==
    \/ Acquire(p)
    \/ ListTasks(p)
    \/ GetTask(p)
    \/ CreateInsert(p)
    \/ CreateLastId(p)
    \/ UpdateTask(p)
    \/ DeleteTask(p)
    \/ DropConn(p)
    \/ DropGuard(p)

\* Every worker thread that can take a step of its handler takes one in the
\* end; the database answers every statement.
FairSpec == Spec /\ \A p \in Workers : WF_vars(Handler(p))

\* ----------------------------------------------------------------- types
TypeOK ==
    /\ phase \in {"boot", "schema", "serving", "aborted"}
    /\ schema \in BOOLEAN
    /\ DOMAIN table \subseteq Ids
    /\ nextId \in 1..(MaxId + 1)
    /\ mutex \in {None} \cup {Some(p) : p \in Workers}
    /\ poisoned \in BOOLEAN
    /\ \A p \in Workers : req[p] \in Requests \cup {NoRequest}
    /\ nreq \in 0..MaxRequests

\* ------------------------------------------------------- claim helpers
Range(f) == {f[j] : j \in DOMAIN f}
Rows(t) == {Task(i, t[i].description, t[i].is_completed) : i \in DOMAIN t}

\* Worker p has run the statement of a k-request without a fault and still
\* holds what it acquired; `last` is then the operation completed just
\* before p's.
Ran(p, k) ==
    /\ pc[p] = "executed"
    /\ req[p].kind = k
    /\ res[p].fault = "none"

\* The operation completed most recently is a successful Create.
LastCreated == last.kind = "create" /\ last.outcome = "created"

\* C1: Create followed by Get with the id Create returned yields a Task with
\* the description and is_completed given to Create and the id Create
\* returned.
C1_CreateThenGet ==
    \A p \in Workers :
        (Ran(p, "get") /\ LastCreated /\ req[p].id = Unwrap(last.task).id)
        => /\ res[p].outcome = "ok"
           /\ res[p].task =
                Some(Task(Unwrap(req[p].id), Unwrap(last.body).description,
                          Unwrap(last.body).is_completed))

\* A Get of the id just created has run, with another row in the table.
C1_Witness ==
    \E p \in Workers :
        /\ Ran(p, "get") /\ LastCreated /\ req[p].id = Unwrap(last.task).id
        /\ res[p].outcome = "ok"
        /\ Cardinality(DOMAIN table) = 2

\* C2: Update with an id that has no row yields "not found": no error, no
\* Task built from the request, and the table still has no row for the id.
C2_UpdateMissingNotFound ==
    \A p \in Workers :
        (/\ pc[p] = "executed"
         /\ req[p].kind = "update"
         /\ Unwrap(req[p].id) \notin DOMAIN table)
        => /\ res[p].outcome = "notfound"
           /\ res[p].task = None

\* C3: Delete is idempotent: a Delete whose statement ran yields the
\* no-content outcome and leaves no row with its id, whether or not the row
\* existed, and so do two successive Deletes of one id.
C3_DeleteIdempotent ==
    /\ \A p \in Workers :
        Ran(p, "delete")
        => /\ res[p].outcome = "nocontent"
           /\ Unwrap(req[p].id) \notin DOMAIN table
    /\ (last.kind = "delete" /\ last.fault = "none")
        => last.outcome = "nocontent"

\* Two successive Deletes of an id that a Create had returned.
C3_Witness ==
    \E p \in Workers :
        /\ Ran(p, "delete")
        /\ last.kind = "delete" /\ last.outcome = "nocontent"
        /\ last.id = req[p].id
        /\ Unwrap(req[p].id) \in Range(issued)
        /\ res[p].outcome = "nocontent"

\* C4: every successful Create returns an id different from the id returned
\* by every other successful Create, however the Creates interleave.
C4_UniqueIds ==
    \A j, k \in DOMAIN issued : j # k => issued[j] # issued[k]

\* Two Creates have returned, the second while another request is in flight.
C4_Witness ==
    /\ Len(issued) = 2
    /\ \E p, q \in Workers :
        /\ p # q
        /\ Ran(p, "create")
        /\ pc[q] = "start"

\* C5: List returns exactly the rows in the table: the Task just created is
\* among them, and an empty table gives the empty sequence.
C5_ListExact ==
    \A p \in Workers :
        Ran(p, "list")
        => /\ res[p].outcome = "ok"
           /\ Range(res[p].list) = Rows(table)
           /\ Len(res[p].list) = Cardinality(DOMAIN table)
           /\ LastCreated => Unwrap(last.task) \in Range(res[p].list)
           /\ DOMAIN table = {} => res[p].list = <<>>

\* A List has run right after a Create, with two rows in the table.
C5_Witness ==
    \E p \in Workers :
        /\ Ran(p, "list") /\ LastCreated
        /\ Len(res[p].list) = 2

\* C6: Get with an id that has no row yields "not found", which is neither
\* the success outcome nor the failure outcome.
C6_GetMissingNotFound ==
    \A p \in Workers :
        (Ran(p, "get") /\ Unwrap(req[p].id) \notin DOMAIN table)
        => /\ res[p].outcome = "notfound"
           /\ res[p].task = None

\* A Get of an id that was created and has just been deleted.
C6_Witness ==
    \E p \in Workers :
        /\ Ran(p, "get")
        /\ last.kind = "delete" /\ last.outcome = "nocontent"
        /\ last.id = req[p].id
        /\ Unwrap(req[p].id) \in Range(issued)
        /\ res[p].outcome = "notfound"

\* C7: a statement failure or a failure to obtain a connection is reported
\* as the failure outcome by every operation, never as "not found" or as
\* success.
C7_FaultIsFailure ==
    /\ \A p \in Workers : res[p].fault # "none" => res[p].outcome = "error"
    /\ last.fault # "none" => last.outcome = "error"

\* What worker p holds.
HoldsNothing(p) == conn[p] = None /\ mutex # Some(p)

\* C8: an operation that has completed holds neither a connection nor the
\* pool lock, on the success path and on every failure path; with no
\* operation in flight every connection is idle and the lock is free.
C8_Released ==
    /\ \A p \in Workers : pc[p] \in {"idle", "start"} => HoldsNothing(p)
    /\ (\A p \in Workers : pc[p] = "idle")
        => /\ mutex = None
           /\ Range(idle) = Conns
           /\ Len(idle) = NumConns

\* An operation whose statement failed has panicked and has completed.
C8_Witness ==
    /\ last.fault = "stmt" /\ last.outcome = "error"
    /\ \A p \in Workers : pc[p] = "idle"
    /\ poisoned

\* C9: a connection is held by at most one operation, and a held connection
\* is not among the idle ones.
C9_ExclusiveConn ==
    /\ \A p, q \in Workers :
        (p # q /\ IsSome(conn[p])) => conn[p] # conn[q]
    /\ \A p \in Workers :
        IsSome(conn[p]) => Unwrap(conn[p]) \notin Range(idle)

\* One operation holds a connection while another is in flight.
C9_Witness ==
    \E p, q \in Workers :
        /\ p # q
        /\ IsSome(conn[p])
        /\ pc[p] = "conn"
        /\ pc[q] = "start"

\* Worker p is running its statement on its connection.
Executing(p) == pc[p] \in {"conn", "inserted"}

\* C10: the pool lock covers only the checkout and checkin, not statement
\* execution: no operation holds the lock while it runs its statement (so
\* that two operations can run their statements at the same time).
C10_LockOnlyForBookkeeping ==
    \A p \in Workers : Executing(p) => mutex # Some(p)

\* What the code does instead: never two statements at the same time.
OneStatementAtATime ==
    \A p, q \in Workers : (Executing(p) /\ Executing(q)) => p = q

\* C11: the id a Create returns is the id of the row this Create inserted,
\* the row holding its description and is_completed, however the Creates
\* interleave: the id is read on the connection that inserted.
C11_OwnRowId ==
    \A p \in Workers :
        Ran(p, "create")
        => /\ Unwrap(res[p].task).id = inserted[p]
           /\ Unwrap(inserted[p]) \in DOMAIN table
           /\ table[Unwrap(inserted[p])] = Row(Unwrap(req[p].body))

\* A second Create has returned, on another connection than the first,
\* while another request is in flight.
C11_Witness ==
    \E p, q \in Workers :
        /\ p # q
        /\ Ran(p, "create")
        /\ pc[q] = "start"
        /\ \E c \in Conns :
            /\ conn[p] # Some(c)
            /\ lastInsertId[c] # 0
            /\ lastInsertId[c] # Unwrap(inserted[p])

\* C12: every id returned by Create is greater than every id returned by an
\* earlier Create, over any sequence of Creates and Deletes, so a deleted
\* row's id is not assigned again.
C12_IdsIncrease ==
    \A j, k \in DOMAIN issued : j < k => issued[j] < issued[k]

\* A Create has returned after the row of an earlier Create was deleted.
C12_Witness ==
    /\ Len(issued) = 2
    /\ issued[1] \notin DOMAIN table
    /\ issued[2] \in DOMAIN table

\* Worker p's statement of kind k ends in this step.
Runs(p, k) == pc[p] = "conn" /\ req[p].kind = k /\ pc'[p] # "conn"

\* Every row of t is a row of u, unchanged.
Kept(t, u) == \A i \in DOMAIN t : i \in DOMAIN u /\ u[i] = t[i]

\* C13: Create ignores an id in the request body: the row is stored under
\* the id the store assigns, the Task returned carries that id, and no
\* existing row is modified or replaced.
C13_CreateIgnoresBodyId ==
    [][\A p \in Workers :
        /\ (Runs(p, "create") /\ pc'[p] = "inserted")
            => /\ Kept(table, table')
               /\ DOMAIN table' = DOMAIN table \cup {nextId}
               /\ nextId \notin DOMAIN table
               /\ table'[nextId] = Row(Unwrap(req[p].body))
               /\ inserted'[p] = Some(nextId)
        /\ (pc[p] = "inserted" /\ pc'[p] = "executed")
            => Unwrap(res'[p].task).id = inserted[p]]_vars

\* A Create whose body names the id of an existing row has returned another
\* id and has left that row as it was.
C13_Witness ==
    \E p \in Workers :
        /\ Ran(p, "create")
        /\ IsSome(Unwrap(req[p].body).id)
        /\ Unwrap(req[p].body).id # Unwrap(res[p].task).id
        /\ Unwrap(Unwrap(req[p].body).id) \in DOMAIN table
        /\ table[Unwrap(Unwrap(req[p].body).id)] # Row(Unwrap(req[p].body))

\* C14: Update changes at most the row with the id of the path, whatever id
\* the body carries, and a Task it returns carries the id of the path.
C14_PathIdAuthoritative ==
    [][\A p \in Workers :
        Runs(p, "update")
        => /\ DOMAIN table' = DOMAIN table
           /\ \A i \in DOMAIN table \ {Unwrap(req[p].id)} : table'[i] = table[i]
           /\ IsSome(res'[p].task) => Unwrap(res'[p].task).id = req[p].id]_vars

\* An Update whose body names another existing row has changed the row of
\* the path and not the row the body names.
C14_Witness ==
    \E p \in Workers :
        LET body == Unwrap(req[p].body)
        IN  /\ Ran(p, "update")
            /\ IsSome(body.id)
            /\ body.id # req[p].id
            /\ {Unwrap(body.id), Unwrap(req[p].id)} \subseteq DOMAIN table
            /\ table[Unwrap(req[p].id)] = Row(body)
            /\ table[Unwrap(body.id)] # Row(body)
            /\ Unwrap(res[p].task).id = req[p].id

\* C15: no operation is served unless the schema bootstrap of this start has
\* succeeded: a worker handles a request only while the service serves, the
\* service serves only with the table created, and an aborted start handles
\* nothing.
C15_BootstrapFirst ==
    /\ \A p \in Workers : pc[p] # "idle" => phase = "serving"
    /\ phase = "serving" => schema
    /\ last # NoEvent => schema

\* A request is being handled, the bootstrap done.
C15_Witness ==
    \E p \in Workers : pc[p] = "conn" /\ phase = "serving" /\ schema

\* C16: the schema bootstrap leaves an existing table and its rows as they
\* are, and so does the restart before it: what a later List or Get finds
\* is what was there.
C16_BootstrapIdempotent ==
    [][(phase # phase' /\ "boot" \in {phase, phase'})
        => /\ table' = table
           /\ nextId' = nextId
           /\ schema => schema']_vars

\* A Get has returned the Task of the Create before it, the service having
\* restarted in between: no connection has inserted since the start.
C16_Witness ==
    \E p \in Workers :
        /\ Ran(p, "get") /\ LastCreated /\ req[p].id = Unwrap(last.task).id
        /\ res[p].task = last.task
        /\ \A c \in Conns : lastInsertId[c] = 0

\* C17: an operation is independent of earlier failures: after an operation
\* has failed while holding the pool lock, a later one still acquires the
\* lock, so an operation fails only on a fault of its own statement or
\* connection.
C17_IndependentOfEarlierFailures == last.fault # "poison"

\* C18: under fair scheduling every request received gets a response, and a
\* held pool lock becomes free again.
C18_EveryRequestAnswered ==
    /\ \A p \in Workers : (pc[p] # "idle") ~> (pc[p] = "idle")
    /\ (mutex # None) ~> (mutex = None)

\* A request waits for the lock while the handler holding it is panicking.
C18_Witness ==
    \E p, q \in Workers :
        /\ pc[p] = "start"
        /\ mutex = Some(q)
        /\ pc[q] = "dropped"
        /\ res[q].outcome = "error"

\* C19: List and Get leave the table as it is, and Delete removes at most
\* the row with its id and leaves every other row as it is.
C19_Frame ==
    [][\A p \in Workers :
        /\ (Runs(p, "list") \/ Runs(p, "get"))
            => table' = table /\ nextId' = nextId
        /\ Runs(p, "delete")
            => /\ Kept(table', table)
               /\ DOMAIN table \ DOMAIN table' \subseteq {Unwrap(req[p].id)}
               /\ nextId' = nextId]_vars

\* A Delete has removed a row that a Create had returned, and another row is
\* still there.
C19_Witness ==
    \E p \in Workers :
        /\ Ran(p, "delete")
        /\ Unwrap(req[p].id) \in Range(issued)
        /\ Unwrap(req[p].id) \notin DOMAIN table
        /\ DOMAIN table # {}
====
